---- MODULE Spec2Model ----
(***************************************************************************)
(* DrawCard (server/game/drawcard.js as concatenated in                    *)
(* src/server/game/cards/01-Core/CreepingOblivion.js, lines 31-427):       *)
(* skill computation, honor / dishonor, fate, attachments and leavesPlay.  *)
(*                                                                         *)
(* One DrawCard object (the "host") is modelled together with its          *)
(* controller and a pool of other cards that can be attached to it.        *)
(*                                                                         *)
(* The card abilities declared in the sources, Creeping Oblivion (same     *)
(* file, lines 1-30) and Bear Flute (src/unnamed/part_001), are modelled   *)
(* as ability instances resolved by the ability framework over a board of  *)
(* discard piles and creatures.                                            *)
(***************************************************************************)
EXTENDS Integers, Sequences, FiniteSets, TLC

(***************************************************************************)
(* Bounds of the model.                                                    *)
(***************************************************************************)
\* |militarySkillModifier|, |politicalSkillModifier| <= MaxMod
MaxMod == 1
\* attachment cards in the pool are numbered 1..NumAttachments
NumAttachments == 2
\* fate tokens on the card stay in 0..MaxFate
MaxFate == 1
\* the controller's honor stays in 0..MaxHonor
MaxHonor == 2
\* the controller's honor when the card is constructed
StartHonor == 1
\* cards drawn / fate gained by the controller through keyword payouts
MaxPayout == 2
\* cards that can lie in the players' discard piles: 1..NumDiscardCards
NumDiscardCards == 3
\* creature cards: 1..NumCreatures
NumCreatures == 2
\* damage on a creature stays in 0..MaxDamage
MaxDamage == 1
\* characters that can bypass each other with covert: 1..NumCharacters
NumCharacters == 2

(***************************************************************************)
(* JavaScript values: numbers, null, undefined and NaN are kept apart.     *)
(***************************************************************************)
Num(n) == [t |-> "number", v |-> n]
Null == [t |-> "null", v |-> 0]
Undefined == [t |-> "undefined", v |-> 0]
NaN == [t |-> "NaN", v |-> 0]

IsNumber(x) == x.t = "number"

True == [t |-> "boolean", v |-> 1]
False == [t |-> "boolean", v |-> 0]
Bool(b) == IF b THEN True ELSE False

\* ToBoolean: false, 0, NaN, null and undefined are falsy
Truthy(x) == (x.t = "number" /\ x.v # 0) \/ (x.t = "boolean" /\ x.v = 1)

\* a && b, a || b, !a
And(a, b) == IF Truthy(a) THEN b ELSE a
Or(a, b) == IF Truthy(a) THEN a ELSE b
Not(a) == IF Truthy(a) THEN False ELSE True

\* ToNumber: null -> 0, undefined -> NaN
ToNumber(x) ==
    CASE x.t = "number" -> x
      [] x.t = "null" -> Num(0)
      [] OTHER -> NaN

\* a + b on numeric operands
Add(a, b) ==
    LET x == ToNumber(a)
        y == ToNumber(b)
    IN IF IsNumber(x) /\ IsNumber(y) THEN Num(x.v + y.v) ELSE NaN

\* a - b
Sub(a, b) ==
    LET x == ToNumber(a)
        y == ToNumber(b)
    IN IF IsNumber(x) /\ IsNumber(y) THEN Num(x.v - y.v) ELSE NaN

\* Math.max(a, b): NaN if either argument is NaN
MathMax(a, b) ==
    LET x == ToNumber(a)
        y == ToNumber(b)
    IN IF IsNumber(x) /\ IsNumber(y)
       THEN Num(IF x.v >= y.v THEN x.v ELSE y.v)
       ELSE NaN

(***************************************************************************)
(* parseInt on a string given as a sequence of characters: optional sign,  *)
(* then the longest run of leading decimal digits; NaN when there is none. *)
(***************************************************************************)
DigitChars == <<"0", "1", "2", "3", "4", "5", "6", "7", "8", "9">>

IsDigit(c) == \E d \in 1..10 : DigitChars[d] = c

DigitValue(c) == (CHOOSE d \in 1..10 : DigitChars[d] = c) - 1

RECURSIVE DigitRun(_, _)
DigitRun(s, acc) ==
    IF s = <<>> \/ ~IsDigit(Head(s))
    THEN acc
    ELSE DigitRun(Tail(s), 10 * acc + DigitValue(Head(s)))

parseInt(s) ==
    LET signed == s # <<>> /\ Head(s) \in {"+", "-"}
        negative == s # <<>> /\ Head(s) = "-"
        body == IF signed THEN Tail(s) ELSE s
    IN IF body = <<>> \/ ~IsDigit(Head(body))
       THEN NaN
       ELSE Num((IF negative THEN -1 ELSE 1) * DigitRun(body, 0))

(***************************************************************************)
(* Card data table (immutable).  CardTable holds the printed data the      *)
(* modelled card can be constructed from; PoolData the cards that may be   *)
(* attached to it (military_bonus / political_bonus are strings).          *)
(***************************************************************************)
CardTable ==
    { [type |-> "character", military |-> Num(3), political |-> Num(2),
       glory |-> Num(2), keywords |-> {}],
      [type |-> "character", military |-> Num(0), political |-> Num(1),
       glory |-> Num(1), keywords |-> {"sincerity"}],
      [type |-> "character", military |-> Null, political |-> Num(0),
       glory |-> Num(2), keywords |-> {"courtesy"}],
      [type |-> "holding", military |-> Undefined, political |-> Undefined,
       glory |-> Undefined, keywords |-> {"sincerity", "courtesy"}] }

Pool == 0..NumAttachments

PoolData(c) ==
    IF c = 0
    THEN [type |-> "character", military_bonus |-> <<>>, political_bonus |-> <<>>]
    ELSE IF c % 2 = 1
         THEN [type |-> "attachment", military_bonus |-> <<"+", "2">>,
               political_bonus |-> <<"+", "0">>]
         ELSE [type |-> "attachment", military_bonus |-> <<"-", "1">>,
               political_bonus |-> <<"+", "1">>]

\* the traits printed on a pool card (attachment.hasTrait)
PoolTraits(c) == IF c % 2 = 1 THEN {"weapon"} ELSE {}

TraitNames == {"weapon", "armor"}

\* the characters that meet in a conflict
Characters == 1..NumCharacters

Phases == {"setup", "conflict"}

(***************************************************************************)
(* State.                                                                  *)
(***************************************************************************)
VARIABLES
    cardData,                \* this.cardData (printed attributes, keywords)
    phase,                   \* this.controller.phase
    attachments,             \* this.attachments (ordered list of pool cards)
    parent,                  \* parent link of every pool card
    militarySkillModifier,
    politicalSkillModifier,
    fate,
    bowed,
    inConflict,
    isHonored,
    isDishonored,
    honor,                   \* this.controller.honor
    hand,                    \* cards the controller has drawn to hand
    playerFate,              \* this.controller.fate
    raised,                  \* events raised by the last call, in order
    messages,                \* game messages added by the last call
    lastCall,                \* the last operation called on the card
    lastAmount,              \* the amount that call was given (0: none)
    pre,                     \* observable state when that call was made
    pre2                     \* honor status and skills one call earlier

VARIABLES
    location,                \* zone of every card that can be discarded
    protected,               \* cards that purge cannot affect
    hasOpponent,             \* context.player.opponent exists
    creatureZone,            \* zone of every creature card
    damage,                  \* damage tokens on every creature
    abilityState,            \* state of every ability instance
    cardsMode,               \* mode of Creeping Oblivion's 'cards' group
    selects,                 \* context.selects.select.choice
    targets,                 \* cards selected for every ability instance
    applied,                 \* apply steps every ability instance has run
    events,                  \* events raised by game actions, in order
    board                    \* the board when an ability was last activated

VARIABLES
    poolAttachments          \* this.attachments of every pool card

linkVars == <<poolAttachments>>

VARIABLES
    cardLocation,            \* this.location
    stealth,                 \* this.stealth
    conflictOptions,         \* this.conflictOptions
    restrictions             \* game actions an effect forbids the card

conflictVars == <<cardLocation, stealth, conflictOptions, restrictions>>

VARIABLES
    blank,                   \* this.isBlank()
    allowedAttachmentTraits  \* this.allowedAttachmentTraits

blankVars == <<blank, allowedAttachmentTraits>>

VARIABLES
    poolKeywords,   \* the keywords of each character (hasKeyword)
    covert,         \* card.covert of each character
    covertTarget,   \* card.covertTarget of each character
    returned,       \* what the last useCovertToBypass returned
    lastArgs,       \* the acting card and the target of that call
    preCovert       \* covert and covertTarget before that call

covertVars == <<poolKeywords, covert, covertTarget, returned, lastArgs,
                preCovert>>

VARIABLES
    healRestricted  \* creatures that heal cannot affect

wardVars == <<healRestricted>>

\* what the operations on fate, honor, skill and attachments leave alone
sideVars == <<linkVars, conflictVars, blankVars, covertVars, wardVars>>

abilityVars == <<location, protected, hasOpponent, creatureZone, damage,
                 abilityState, cardsMode, selects, targets, applied, events,
                 board>>

cardVars == <<cardData, phase, attachments, parent, militarySkillModifier,
              politicalSkillModifier, fate, bowed, inConflict, isHonored,
              isDishonored, honor, hand, playerFate, raised, messages,
              lastCall, lastAmount, pre, pre2>>

vars == <<cardData, phase, attachments, parent, militarySkillModifier,
          politicalSkillModifier, fate, bowed, inConflict, isHonored,
          isDishonored, honor, hand, playerFate, raised, messages,
          lastCall, lastAmount, pre, pre2,
          location, protected, hasOpponent, creatureZone, damage,
          abilityState, cardsMode, selects, targets, applied, events, board,
          poolAttachments, cardLocation, stealth, conflictOptions,
          restrictions, blank, allowedAttachmentTraits, poolKeywords,
          covert, covertTarget, returned, lastArgs, preCovert,
          healRestricted>>

hasKeyword(k) == k \in cardData.keywords
hasSincerity == hasKeyword("sincerity")
hasCourtesy == hasKeyword("courtesy")

(***************************************************************************)
(* Skill computation.                                                      *)
(***************************************************************************)
\* _.reduce(this.attachments._wrapped,
\*          (skill, card) => skill + parseInt(card.cardData.military_bonus), skill)
\* reduce whose callback drops the accumulator (skill = parseInt(...))
RECURSIVE reduceMilitaryBonus_noAccumulate(_, _)
reduceMilitaryBonus_noAccumulate(cards, skill) ==
    IF cards = <<>>
    THEN skill
    ELSE reduceMilitaryBonus_noAccumulate(Tail(cards),
                                          parseInt(PoolData(Head(cards)).military_bonus))

RECURSIVE reduceMilitaryBonus(_, _)
reduceMilitaryBonus(cards, skill) ==
    IF cards = <<>>
    THEN skill
    ELSE reduceMilitaryBonus(Tail(cards),
                             Add(skill, parseInt(PoolData(Head(cards)).military_bonus)))

RECURSIVE reducePoliticalBonus(_, _)
reducePoliticalBonus(cards, skill) ==
    IF cards = <<>>
    THEN skill
    ELSE reducePoliticalBonus(Tail(cards),
                              Add(skill, parseInt(PoolData(Head(cards)).political_bonus)))

\* glory delta that forgets the dishonored term
skillFromGlory_ignoresDishonor ==
    IF isHonored THEN cardData.glory ELSE Num(0)

\* (this.isHonored ? this.glory : 0) - (this.isDishonored ? this.glory : 0)
skillFromGlory ==
    Sub(IF isHonored THEN cardData.glory ELSE Num(0),
        IF isDishonored THEN cardData.glory ELSE Num(0))

\* getMilitarySkill without the Math.max(0, ...) clamp
getMilitarySkill_noClamp(printed) ==
    IF phase = "setup" \/ printed
    THEN IF Truthy(cardData.military) THEN cardData.military ELSE Undefined
    ELSE IF cardData.military # Null /\ cardData.military # Undefined
         THEN Add(Add(Add(cardData.military, Num(militarySkillModifier)),
                      reduceMilitaryBonus(attachments, Num(0))),
                  skillFromGlory)
         ELSE Null

getMilitarySkill(printed) ==
    IF phase = "setup" \/ printed
    THEN IF Truthy(cardData.military) THEN cardData.military ELSE Undefined
    ELSE IF cardData.military # Null /\ cardData.military # Undefined
         THEN LET skillFromAttachments == reduceMilitaryBonus(attachments, Num(0))
              IN MathMax(Num(0),
                         Add(Add(Add(cardData.military, Num(militarySkillModifier)),
                                 skillFromAttachments),
                             skillFromGlory))
         ELSE Null

getPoliticalSkill(printed) ==
    IF phase = "setup" \/ printed
    THEN IF Truthy(cardData.political) THEN cardData.political ELSE Undefined
    ELSE IF cardData.political # Null /\ cardData.political # Undefined
         THEN LET skillFromAttachments == reducePoliticalBonus(attachments, Num(0))
              IN MathMax(Num(0),
                         Add(Add(Add(cardData.political, Num(politicalSkillModifier)),
                                 skillFromAttachments),
                             skillFromGlory))
         ELSE Null

SkillTypes == {"military", "political"}

getSkill(type, printed) ==
    IF type = "military"
    THEN getMilitarySkill(printed)
    ELSE IF type = "political"
         THEN getPoliticalSkill(printed)
         ELSE Undefined

(***************************************************************************)
(* What a caller can observe of the card and its controller; recorded in   *)
(* pre when an operation is called.                                        *)
(***************************************************************************)
Observed ==
    [isHonored |-> isHonored, isDishonored |-> isDishonored,
     fate |-> fate, bowed |-> bowed, inConflict |-> inConflict,
     honor |-> honor, hand |-> hand, playerFate |-> playerFate,
     military |-> getMilitarySkill(FALSE),
     political |-> getPoliticalSkill(FALSE),
     attachments |-> attachments,
     lastCall |-> lastCall]

\* of the state before the call before the last one
Before(o) ==
    [isHonored |-> o.isHonored, isDishonored |-> o.isDishonored,
     military |-> o.military, political |-> o.political]

\* the call is recorded for the properties
Recorded(op, amount) ==
    /\ lastCall' = op
    /\ lastAmount' = amount
    /\ pre' = Observed
    /\ pre2' = Before(pre)

CalledWith(op, amount) ==
    /\ Recorded(op, amount)
    /\ UNCHANGED abilityVars
    /\ UNCHANGED sideVars

Called(op) == CalledWith(op, 0)

(***************************************************************************)
(* The board the card abilities act on.                                    *)
(***************************************************************************)
\* context.player and context.player.opponent
Players == {"me", "opponent"}

\* cards that can be discarded, and the zones they can be in
DiscardCards == 1..NumDiscardCards

\* player.discard as a zone name
Pile(p) == IF p = "me" THEN "my discard" ELSE "opponent's discard"

\* player.discard: the cards in a player's discard pile
Discard(p) == {c \in DiscardCards : location[c] = Pile(p)}

\* creature cards; the odd ones are named 'Ancient Bear'
Creatures == 1..NumCreatures

CreatureName(c) == IF c % 2 = 1 THEN "Ancient Bear" ELSE "Troll"

\* context.game.creaturesInPlay
creaturesInPlay == {c \in Creatures : creatureZone[c] = "play area"}

\* the ability instances: one of each card's ability
Abilities == {"creeping-oblivion", "bear-flute"}

AbilityStates ==
    {"Idle", "TargetsPending", "ActionsPending", "Resolved", "Illegal"}

\* the game state the abilities can change
Board ==
    [location |-> location, protected |-> protected,
     hasOpponent |-> hasOpponent, creatureZone |-> creatureZone,
     damage |-> damage]

(***************************************************************************)
(* Initial state: the card as the constructor leaves it, the board before  *)
(* any card was discarded or played, the abilities registered and idle.    *)
(***************************************************************************)
Init ==
    /\ cardData \in CardTable
    /\ phase \in Phases
    /\ attachments = <<>>
    /\ parent = [c \in Pool |-> "null"]
    /\ militarySkillModifier = 0
    /\ politicalSkillModifier = 0
    /\ fate = 0
    /\ bowed = FALSE
    /\ inConflict = FALSE
    /\ isHonored = FALSE
    /\ isDishonored = FALSE
    /\ honor = StartHonor
    /\ hand = 0
    /\ playerFate = 0
    /\ raised = <<>>
    /\ messages = <<>>
    /\ lastCall = "constructor"
    /\ lastAmount = 0
    /\ pre = Observed
    /\ pre2 = Before(pre)
    /\ location = [c \in DiscardCards |-> "deck"]
    /\ protected = {}
    /\ hasOpponent = FALSE
    /\ creatureZone = [c \in Creatures |-> "deck"]
    /\ damage = [c \in Creatures |-> 0]
    /\ abilityState = [a \in Abilities |-> "Idle"]
    /\ cardsMode = "upTo"
    /\ selects = "none"
    /\ targets = [a \in Abilities |-> <<>>]
    /\ applied = [a \in Abilities |-> 0]
    /\ events = <<>>
    /\ board = Board
    /\ poolAttachments = [c \in Pool |-> <<>>]
    /\ cardLocation = "deck"
    /\ stealth = Undefined
    /\ conflictOptions =
           [canBeDeclaredWhileBowing |-> Undefined,
            cannotParticipateIn |-> [military |-> False, political |-> False]]
    /\ restrictions = {}
    /\ blank = FALSE
    /\ allowedAttachmentTraits = {}
    /\ poolKeywords = [c \in Characters |-> {}]
    /\ covert = [c \in Characters |-> Undefined]
    /\ covertTarget = [c \in Characters |-> "undefined"]
    /\ returned = Undefined
    /\ healRestricted = {}
    /\ lastArgs = <<1, 1>>
    /\ preCovert = [covert |-> [c \in Characters |-> Undefined],
                    covertTarget |-> [c \in Characters |-> "undefined"]]

(***************************************************************************)
(* Operations.                                                             *)
(***************************************************************************)
Event(name, amount, applying) ==
    [name |-> name, amount |-> amount, applying |-> applying]

modifyMilitarySkill(amount, applying) ==
    /\ militarySkillModifier' = militarySkillModifier + amount
    /\ raised' = <<Event("onCardMilitarySkillChanged", amount, applying)>>
    /\ UNCHANGED politicalSkillModifier

modifyPoliticalSkill(amount, applying) ==
    /\ politicalSkillModifier' = politicalSkillModifier + amount
    /\ raised' = <<Event("onCardPoliticalSkillChanged", amount, applying)>>
    /\ UNCHANGED militarySkillModifier

SkillAmounts == (-MaxMod..MaxMod) \ {0}

\* modifySkill(amount, type, applying = true)
Applying == {TRUE}

modifySkill(amount, type, applying) ==
    /\ LET m == IF type = "military" THEN militarySkillModifier
                ELSE politicalSkillModifier
       IN m + amount \in -MaxMod..MaxMod
    /\ IF type = "military"
       THEN modifyMilitarySkill(amount, applying)
       ELSE modifyPoliticalSkill(amount, applying)
    /\ messages' = <<>>
    /\ CalledWith("modifySkill", amount)
    /\ UNCHANGED <<cardData, phase, attachments, parent, fate, bowed, inConflict,
                   isHonored, isDishonored, honor, hand, playerFate>>

FateAmounts == -(MaxFate + 2)..MaxFate

\* modifyFate without the check of l. 227-229
modifyFate_noClamp(amount) ==
    /\ fate + amount <= MaxFate
    /\ fate' = fate + amount
    /\ raised' = <<Event("onCardFateChanged", fate' - fate, TRUE)>>
    /\ messages' = <<>>
    /\ CalledWith("modifyFate", amount)
    /\ UNCHANGED <<cardData, phase, attachments, parent, militarySkillModifier,
                   politicalSkillModifier, bowed, inConflict, isHonored,
                   isDishonored, honor, hand, playerFate>>

\* modifyFate that reports the amount it was asked for
modifyFate_requested(amount) ==
    /\ fate + amount <= MaxFate
    /\ fate' = IF fate + amount < 0 THEN 0 ELSE fate + amount
    /\ raised' = <<Event("onCardFateChanged", amount, TRUE)>>
    /\ messages' = <<>>
    /\ CalledWith("modifyFate", amount)
    /\ UNCHANGED <<cardData, phase, attachments, parent, militarySkillModifier,
                   politicalSkillModifier, bowed, inConflict, isHonored,
                   isDishonored, honor, hand, playerFate>>

modifyFate(amount) ==
    /\ fate + amount <= MaxFate
    /\ fate' = IF fate + amount < 0 THEN 0 ELSE fate + amount
    /\ raised' = <<Event("onCardFateChanged", fate' - fate, TRUE)>>
    /\ messages' = <<>>
    /\ CalledWith("modifyFate", amount)
    /\ UNCHANGED <<cardData, phase, attachments, parent, militarySkillModifier,
                   politicalSkillModifier, bowed, inConflict, isHonored,
                   isDishonored, honor, hand, playerFate>>

\* honor() that sets the honored flag without looking at dishonor
honorStatus_keepsDishonor ==
    IF ~isHonored
    THEN isHonored' = TRUE /\ UNCHANGED isDishonored
    ELSE UNCHANGED <<isHonored, isDishonored>>

\* honor() that flips the honored flag on every call
honorStatus_toggle ==
    IF isDishonored
    THEN isDishonored' = FALSE /\ UNCHANGED isHonored
    ELSE isHonored' = ~isHonored /\ UNCHANGED isDishonored

\* honor() that always ends honored
honorStatus_strict ==
    isHonored' = TRUE /\ isDishonored' = FALSE

honorStatus ==
    /\ IF isDishonored
       THEN isDishonored' = FALSE /\ UNCHANGED isHonored
       ELSE IF ~isHonored
            THEN isHonored' = TRUE /\ UNCHANGED isDishonored
            ELSE UNCHANGED <<isHonored, isDishonored>>

Honor ==
    /\ honorStatus
    /\ raised' = <<>>
    /\ messages' = <<>>
    /\ Called("honor")
    /\ UNCHANGED <<cardData, phase, attachments, parent, militarySkillModifier,
                   politicalSkillModifier, fate, bowed, inConflict, honor, hand,
                   playerFate>>

\* dishonor() that always ends dishonored
dishonorStatus_strict ==
    isDishonored' = TRUE /\ isHonored' = FALSE

dishonorStatus ==
    /\ IF isHonored
       THEN isHonored' = FALSE /\ UNCHANGED isDishonored
       ELSE IF ~isDishonored
            THEN isDishonored' = TRUE /\ UNCHANGED isHonored
            ELSE UNCHANGED <<isHonored, isDishonored>>

Dishonor ==
    /\ dishonorStatus
    /\ raised' = <<>>
    /\ messages' = <<>>
    /\ Called("dishonor")
    /\ UNCHANGED <<cardData, phase, attachments, parent, militarySkillModifier,
                   politicalSkillModifier, fate, bowed, inConflict, honor, hand,
                   playerFate>>

\* game.addHonor(player, amount)
addHonor(amount) == honor' = honor + amount

\* controller.drawCardsToHand(n)
drawCardsToHand(n) == hand' = hand + n

\* game.addFate(player, amount)
addFate(amount) == playerFate' = playerFate + amount

\* leavesPlay whose dishonored branch pays +1 instead of -1
leavesPlayStatus_wrongSign ==
    IF isHonored
    THEN addHonor(1) /\ isHonored' = FALSE /\ UNCHANGED isDishonored
    ELSE IF isDishonored
         THEN addHonor(1) /\ isDishonored' = FALSE /\ UNCHANGED isHonored
         ELSE UNCHANGED <<honor, isHonored, isDishonored>>

\* l. 336-344: the personal-honor payout and the clearing of the status
leavesPlayStatus ==
    IF isHonored
    THEN addHonor(1) /\ isHonored' = FALSE /\ UNCHANGED isDishonored
    ELSE IF isDishonored
         THEN addHonor(-1) /\ isDishonored' = FALSE /\ UNCHANGED isHonored
         ELSE UNCHANGED <<honor, isHonored, isDishonored>>

\* game.addMessage calls of leavesPlay, in order
leavesPlayMessages ==
    (IF isHonored THEN <<"gains 1 honor">>
     ELSE IF isDishonored THEN <<"loses 1 honor">> ELSE <<>>)
    \o (IF hasSincerity THEN <<"draws a card">> ELSE <<>>)
    \o (IF hasCourtesy THEN <<"gains a fate">> ELSE <<>>)

\* resetForConflict()
resetForConflict ==
    /\ stealth' = False
    /\ inConflict' = FALSE

\* leavesPlay that forgets to clear the fate on the card
leavesPlayReset_keepsFate ==
    /\ bowed' = FALSE
    /\ UNCHANGED fate
    /\ resetForConflict

\* the fields leavesPlay clears whatever they held (l. 332-335, 353)
leavesPlayReset ==
    /\ bowed' = FALSE
    /\ fate' = 0
    /\ resetForConflict

\* keyword payouts where courtesy is only looked at without sincerity
leavesPlayKeywords_elseIf ==
    /\ IF hasSincerity THEN drawCardsToHand(1) ELSE UNCHANGED hand
    /\ IF ~hasSincerity /\ hasCourtesy THEN addFate(1) ELSE UNCHANGED playerFate

\* the keyword payouts of leavesPlay (l. 345-352)
leavesPlayKeywords ==
    /\ IF hasSincerity THEN drawCardsToHand(1) ELSE UNCHANGED hand
    /\ IF hasCourtesy THEN addFate(1) ELSE UNCHANGED playerFate

leavesPlay ==
    /\ honor + (IF isHonored THEN 1 ELSE IF isDishonored THEN -1 ELSE 0)
           \in 0..MaxHonor
    /\ hasSincerity => hand < MaxPayout
    /\ hasCourtesy => playerFate < MaxPayout
    /\ leavesPlayReset
    /\ leavesPlayStatus
    /\ leavesPlayKeywords
    /\ messages' = leavesPlayMessages
    /\ raised' = <<>>
    /\ Recorded("leavesPlay", 0)
    /\ UNCHANGED <<cardData, phase, attachments, parent, militarySkillModifier,
                   politicalSkillModifier>>
    /\ UNCHANGED <<cardLocation, conflictOptions, restrictions>>
    /\ UNCHANGED linkVars
    /\ UNCHANGED blankVars
    /\ UNCHANGED abilityVars
    /\ UNCHANGED covertVars
    /\ UNCHANGED wardVars

(***************************************************************************)
(* Bowing and conflicts.  The card only reads and clears these flags; the  *)
(* player and the conflict set them.                                       *)
(***************************************************************************)
\* controller.bowCard(card) / the card's setBow(true)
bowCard == bowed' = TRUE

\* setBow(bool): bow or ready the card
setBow(b) ==
    /\ bowed # b
    /\ bowed' = b
    /\ raised' = <<>>
    /\ messages' = <<>>
    /\ Called("setBow")
    /\ UNCHANGED <<cardData, phase, attachments, parent, militarySkillModifier,
                   politicalSkillModifier, fate, inConflict, isHonored,
                   isDishonored, honor, hand, playerFate>>

\* the conflict takes the card as attacker or defender
joinConflict ==
    /\ ~inConflict
    /\ inConflict' = TRUE
    /\ raised' = <<>>
    /\ messages' = <<>>
    /\ Called("joinConflict")
    /\ UNCHANGED <<cardData, phase, attachments, parent, militarySkillModifier,
                   politicalSkillModifier, fate, bowed, isHonored,
                   isDishonored, honor, hand, playerFate>>

Sides == {"attacker", "defender"}

\* this.conflictOptions.doesNotBowAs[side], as the constructor sets it
doesNotBowAs(side) == FALSE

returnHomeFromConflict(side) ==
    /\ IF ~doesNotBowAs(side) /\ ~bowed THEN bowCard ELSE UNCHANGED bowed
    /\ inConflict' = FALSE
    /\ raised' = <<>>
    /\ messages' = <<>>
    /\ Called("returnHomeFromConflict")
    /\ UNCHANGED <<cardData, phase, attachments, parent, militarySkillModifier,
                   politicalSkillModifier, fate, isHonored, isDishonored,
                   honor, hand, playerFate>>

ConflictTypes == {"military", "political"}

\* the game actions canDeclareAs... asks about
GameActions == {"declareAsAttacker", "declareAsDefender", "participateInConflict"}

\* this.allowGameAction(actionType): no effect forbids the action
allowGameAction(actionType) == Bool(actionType \notin restrictions)

canParticipateInConflict == allowGameAction("participateInConflict")

\* canDeclareAsParticipant that does not look at bowed
canDeclareAsParticipant_ignoresBowed(conflictType) ==
    And(And(And(canParticipateInConflict,
                Bool(cardLocation = "play area")),
            Not(stealth)),
        Not(conflictOptions.cannotParticipateIn[conflictType]))

canDeclareAsParticipant(conflictType) ==
    And(And(And(And(canParticipateInConflict,
                    Bool(cardLocation = "play area")),
                Not(stealth)),
            Or(Not(Bool(bowed)), conflictOptions.canBeDeclaredWhileBowing)),
        Not(conflictOptions.cannotParticipateIn[conflictType]))

canDeclareAsAttacker(conflictType) ==
    And(allowGameAction("declareAsAttacker"),
        canDeclareAsParticipant(conflictType))

canDeclareAsDefender(conflictType) ==
    And(allowGameAction("declareAsDefender"),
        canDeclareAsParticipant(conflictType))

canDeclareAs(side, conflictType) ==
    IF side = "attacker" THEN canDeclareAsAttacker(conflictType)
    ELSE canDeclareAsDefender(conflictType)

\* the card is declared in a conflict of the given type when the check
\* says it can be
declareAs(side, conflictType) ==
    /\ ~inConflict
    /\ Truthy(canDeclareAs(side, conflictType))
    /\ inConflict' = TRUE
    /\ Recorded(IF side = "attacker" THEN "declareAsAttacker"
                ELSE "declareAsDefender", 0)
    /\ UNCHANGED <<bowed, cardLocation, stealth, conflictOptions, restrictions>>
    /\ raised' = <<>>
    /\ messages' = <<>>
    /\ UNCHANGED <<cardData, phase, attachments, parent, militarySkillModifier,
                   politicalSkillModifier, fate, isHonored, isDishonored,
                   honor, hand, playerFate>>
    /\ UNCHANGED linkVars
    /\ UNCHANGED blankVars
    /\ UNCHANGED abilityVars
    /\ UNCHANGED covertVars
    /\ UNCHANGED wardVars

Locations == {"deck", "play area"}

\* the card is moved to a zone
moveTo(targetLocation) ==
    /\ cardLocation # targetLocation
    /\ cardLocation' = targetLocation
    /\ Recorded("moveTo", 0)
    /\ UNCHANGED <<bowed, inConflict, stealth, conflictOptions, restrictions>>
    /\ raised' = <<>>
    /\ messages' = <<>>
    /\ UNCHANGED <<cardData, phase, attachments, parent, militarySkillModifier,
                   politicalSkillModifier, fate, isHonored, isDishonored,
                   honor, hand, playerFate>>
    /\ UNCHANGED linkVars
    /\ UNCHANGED blankVars
    /\ UNCHANGED abilityVars
    /\ UNCHANGED covertVars
    /\ UNCHANGED wardVars

\* a covert attacker puts the card under stealth
setStealth ==
    /\ stealth # True
    /\ stealth' = True
    /\ Recorded("setStealth", 0)
    /\ UNCHANGED <<bowed, inConflict, cardLocation, conflictOptions, restrictions>>
    /\ raised' = <<>>
    /\ messages' = <<>>
    /\ UNCHANGED <<cardData, phase, attachments, parent, militarySkillModifier,
                   politicalSkillModifier, fate, isHonored, isDishonored,
                   honor, hand, playerFate>>
    /\ UNCHANGED linkVars
    /\ UNCHANGED blankVars
    /\ UNCHANGED abilityVars
    /\ UNCHANGED covertVars
    /\ UNCHANGED wardVars

ConflictOptionNames == {"canBeDeclaredWhileBowing"} \cup ConflictTypes

\* an effect sets one of the card's conflict options
setConflictOption(option) ==
    /\ conflictOptions' =
           IF option = "canBeDeclaredWhileBowing"
           THEN [conflictOptions EXCEPT !.canBeDeclaredWhileBowing = True]
           ELSE [conflictOptions EXCEPT !.cannotParticipateIn[option] = True]
    /\ conflictOptions' # conflictOptions
    /\ Recorded("setConflictOption", 0)
    /\ UNCHANGED <<bowed, inConflict, cardLocation, stealth, restrictions>>
    /\ raised' = <<>>
    /\ messages' = <<>>
    /\ UNCHANGED <<cardData, phase, attachments, parent, militarySkillModifier,
                   politicalSkillModifier, fate, isHonored, isDishonored,
                   honor, hand, playerFate>>
    /\ UNCHANGED linkVars
    /\ UNCHANGED blankVars
    /\ UNCHANGED abilityVars
    /\ UNCHANGED covertVars
    /\ UNCHANGED wardVars

\* an effect forbids the card a game action
restrictAction(actionType) ==
    /\ actionType \notin restrictions
    /\ restrictions' = restrictions \cup {actionType}
    /\ Recorded("restrictAction", 0)
    /\ UNCHANGED <<bowed, inConflict, cardLocation, stealth, conflictOptions>>
    /\ raised' = <<>>
    /\ messages' = <<>>
    /\ UNCHANGED <<cardData, phase, attachments, parent, militarySkillModifier,
                   politicalSkillModifier, fate, isHonored, isDishonored,
                   honor, hand, playerFate>>
    /\ UNCHANGED linkVars
    /\ UNCHANGED blankVars
    /\ UNCHANGED abilityVars
    /\ UNCHANGED covertVars
    /\ UNCHANGED wardVars

(***************************************************************************)
(* Attachments.  canAttach is the attachment's own check (l. 321-323);     *)
(* attach / detach maintain the host's list and the parent link.           *)
(***************************************************************************)
canAttach(attachment, card) ==
    card # "null" /\ PoolData(attachment).type = "attachment"

RECURSIVE without(_, _)
without(cards, c) ==
    IF cards = <<>>
    THEN <<>>
    ELSE IF Head(cards) = c
         THEN without(Tail(cards), c)
         ELSE <<Head(cards)>> \o without(Tail(cards), c)

\* allowAttachment(attachment): the 'no attachment' restrictions
allowAttachmentWhen(isBlank, c) ==
    IF \E trait \in allowedAttachmentTraits : trait \in PoolTraits(c)
    THEN TRUE
    ELSE isBlank \/ Cardinality(allowedAttachmentTraits) = 0

allowAttachment(c) == allowAttachmentWhen(blank, c)

attach(c) ==
    /\ parent[c] = "null"
    /\ canAttach(c, "host")
    /\ allowAttachment(c)
    /\ attachments' = Append(attachments, c)
    /\ parent' = [parent EXCEPT ![c] = "host"]
    /\ raised' = <<>>
    /\ messages' = <<>>
    /\ Called("attach")
    /\ UNCHANGED <<cardData, phase, militarySkillModifier, politicalSkillModifier,
                   fate, bowed, inConflict, isHonored, isDishonored, honor, hand,
                   playerFate>>

detach(c) ==
    /\ parent[c] = "host"
    /\ attachments' = without(attachments, c)
    /\ parent' = [parent EXCEPT ![c] = "null"]
    /\ raised' = <<>>
    /\ messages' = <<>>
    /\ Called("detach")
    /\ UNCHANGED <<cardData, phase, militarySkillModifier, politicalSkillModifier,
                   fate, bowed, inConflict, isHonored, isDishonored, honor, hand,
                   playerFate>>

\* the list without its i-th element
removeAt(cards, i) ==
    [k \in 1..(Len(cards) - 1) |-> IF k < i THEN cards[k] ELSE cards[k + 1]]

\* this.attachments.each(...) of clearBlank (l. 278-282): the callback is
\* called for the indices 1..length of the list as it was at the start,
\* while discardCard takes the discarded card out of the list being
\* iterated.  An index past the end of the shortened list yields undefined,
\* on which allowAttachment fails (attachment.hasTrait): the loop ends.
\* isBlank() is already false in the callback.
RECURSIVE clearBlankEach(_, _, _)
clearBlankEach(cards, i, length) ==
    IF i > length \/ i > Len(cards)
    THEN cards
    ELSE IF ~allowAttachmentWhen(FALSE, cards[i])
         THEN clearBlankEach(removeAt(cards, i), i + 1, length)
         ELSE clearBlankEach(cards, i + 1, length)

\* clearBlank(): super.clearBlank(), then the disallowed attachments are
\* discarded
clearBlank ==
    /\ blank' = FALSE
    /\ UNCHANGED allowedAttachmentTraits
    /\ attachments' = clearBlankEach(attachments, 1, Len(attachments))
    /\ parent' = [c \in Pool |->
                     IF parent[c] = "host"
                        /\ ~(\E k \in 1..Len(attachments') : attachments'[k] = c)
                     THEN "null" ELSE parent[c]]
    /\ raised' = <<>>
    /\ messages' = <<>>
    /\ Recorded("clearBlank", 0)
    /\ UNCHANGED <<cardData, phase, militarySkillModifier,
                   politicalSkillModifier, fate, bowed, inConflict, isHonored,
                   isDishonored, honor, hand, playerFate>>
    /\ UNCHANGED linkVars
    /\ UNCHANGED conflictVars
    /\ UNCHANGED abilityVars
    /\ UNCHANGED covertVars
    /\ UNCHANGED wardVars

\* an effect blanks the card
setBlank ==
    /\ ~blank
    /\ blank' = TRUE
    /\ UNCHANGED allowedAttachmentTraits
    /\ raised' = <<>>
    /\ messages' = <<>>
    /\ Recorded("setBlank", 0)
    /\ UNCHANGED <<cardData, phase, attachments, parent, militarySkillModifier,
                   politicalSkillModifier, fate, bowed, inConflict, isHonored,
                   isDishonored, honor, hand, playerFate>>
    /\ UNCHANGED linkVars
    /\ UNCHANGED conflictVars
    /\ UNCHANGED abilityVars
    /\ UNCHANGED covertVars
    /\ UNCHANGED wardVars

\* the card's text restricts its attachments to the given traits
setAllowedAttachmentTraits(traits) ==
    /\ allowedAttachmentTraits = {}
    /\ traits # {}
    /\ allowedAttachmentTraits' = traits
    /\ UNCHANGED blank
    /\ raised' = <<>>
    /\ messages' = <<>>
    /\ Recorded("setAllowedAttachmentTraits", 0)
    /\ UNCHANGED <<cardData, phase, attachments, parent, militarySkillModifier,
                   politicalSkillModifier, fate, bowed, inConflict, isHonored,
                   isDishonored, honor, hand, playerFate>>
    /\ UNCHANGED linkVars
    /\ UNCHANGED conflictVars
    /\ UNCHANGED abilityVars
    /\ UNCHANGED covertVars
    /\ UNCHANGED wardVars

\* what the calls on the covert keyword leave alone
CovertFrame ==
    /\ raised' = <<>>
    /\ messages' = <<>>
    /\ UNCHANGED <<cardData, phase, attachments, parent, militarySkillModifier,
                   politicalSkillModifier, fate, bowed, inConflict, isHonored,
                   isDishonored, honor, hand, playerFate>>
    /\ UNCHANGED linkVars
    /\ UNCHANGED conflictVars
    /\ UNCHANGED blankVars
    /\ UNCHANGED wardVars
    /\ UNCHANGED abilityVars

\* a pool card as the value of a parent link
CardRef(c) == ToString(c)

\* isCovert() of a character (l. 101-103)
isCovert(c) == "covert" \in poolKeywords[c]

\* needsCovertTarget() (l. 253-255)
needsCovertTarget(c) == isCovert(c) /\ covertTarget[c] = "undefined"

\* a target that covert always bypasses
canBeBypassedByCovert_always(c) == TRUE

\* canBeBypassedByCovert() (l. 261-263)
canBeBypassedByCovert(c) == ~isCovert(c)

\* canUseCovertToBypass(targetCard) (l. 257-259)
canUseCovertToBypass(c, targetCard) ==
    isCovert(c) /\ canBeBypassedByCovert(targetCard)

\* useCovertToBypass(targetCard) (l. 265-274)
useCovertToBypass(c, targetCard) ==
    /\ IF ~canUseCovertToBypass(c, targetCard)
       THEN /\ returned' = False
            /\ UNCHANGED <<covert, covertTarget>>
       ELSE /\ covert' = [covert EXCEPT ![targetCard] = True]
            /\ covertTarget' = [covertTarget EXCEPT ![c] = CardRef(targetCard)]
            /\ returned' = True
    /\ lastArgs' = <<c, targetCard>>
    /\ preCovert' = [covert |-> covert, covertTarget |-> covertTarget]
    /\ UNCHANGED poolKeywords
    /\ Recorded("useCovertToBypass", 0)
    /\ CovertFrame

\* an effect gives a character the covert keyword
addKeyword(c) ==
    /\ ~isCovert(c)
    /\ poolKeywords' = [poolKeywords EXCEPT ![c] = @ \cup {"covert"}]
    /\ UNCHANGED <<covert, covertTarget, returned, lastArgs, preCovert>>
    /\ Recorded("addKeyword", 0)
    /\ CovertFrame

\* the effect ends
removeKeyword(c) ==
    /\ isCovert(c)
    /\ poolKeywords' = [poolKeywords EXCEPT ![c] = @ \ {"covert"}]
    /\ UNCHANGED <<covert, covertTarget, returned, lastArgs, preCovert>>
    /\ Recorded("removeKeyword", 0)
    /\ CovertFrame

\* an attachment card is attached to a card of the pool: the same steps as
\* attach, on the pool card's own attachments and the parent link
attachToCard(c, target) ==
    /\ parent[c] = "null"
    /\ canAttach(c, CardRef(target))
    /\ poolAttachments' = [poolAttachments EXCEPT ![target] = Append(@, c)]
    /\ parent' = [parent EXCEPT ![c] = CardRef(target)]
    /\ raised' = <<>>
    /\ messages' = <<>>
    /\ Recorded("attach", 0)
    /\ UNCHANGED <<cardData, phase, attachments, militarySkillModifier,
                   politicalSkillModifier, fate, bowed, inConflict, isHonored,
                   isDishonored, honor, hand, playerFate>>
    /\ UNCHANGED abilityVars
    /\ UNCHANGED covertVars
    /\ UNCHANGED wardVars
    /\ UNCHANGED conflictVars
    /\ UNCHANGED blankVars

(***************************************************************************)
(* Moves of the game that fill the board.  They happen before an ability   *)
(* is activated: nothing else runs while an ability resolves.              *)
(***************************************************************************)
AllIdle == \A a \in Abilities : abilityState[a] = "Idle"

\* no ability instance is between its activation and its end
NoneResolving ==
    \A a \in Abilities : abilityState[a] \in {"Idle", "Resolved", "Illegal"}

AbilityUnchanged ==
    UNCHANGED <<abilityState, cardsMode, selects, targets, applied, events,
                board>>

\* a second player sits down
opponentJoins ==
    /\ AllIdle
    /\ ~hasOpponent
    /\ hasOpponent' = TRUE
    /\ AbilityUnchanged
    /\ UNCHANGED <<location, protected, creatureZone, damage>>
    /\ UNCHANGED cardVars
    /\ UNCHANGED sideVars

\* a card goes from a deck to its owner's discard pile
discardCard(p, c) ==
    /\ AllIdle
    /\ location[c] = "deck"
    /\ p = "opponent" => hasOpponent
    /\ location' = [location EXCEPT ![c] = Pile(p)]
    /\ AbilityUnchanged
    /\ UNCHANGED <<protected, hasOpponent, creatureZone, damage>>
    /\ UNCHANGED cardVars
    /\ UNCHANGED sideVars

\* an effect forbids purging a card
protect(c) ==
    /\ AllIdle
    /\ c \notin protected
    /\ protected' = protected \cup {c}
    /\ AbilityUnchanged
    /\ UNCHANGED <<location, hasOpponent, creatureZone, damage>>
    /\ UNCHANGED cardVars
    /\ UNCHANGED sideVars

\* a creature is played from its owner's deck
playCreature(c) ==
    /\ AllIdle
    /\ creatureZone[c] = "deck"
    /\ creatureZone' = [creatureZone EXCEPT ![c] = "play area"]
    /\ AbilityUnchanged
    /\ UNCHANGED <<location, protected, hasOpponent, damage>>
    /\ UNCHANGED cardVars
    /\ UNCHANGED sideVars

\* a creature card is discarded from its owner's deck
discardCreature(c) ==
    /\ AllIdle
    /\ creatureZone[c] = "deck"
    /\ creatureZone' = [creatureZone EXCEPT ![c] = "discard"]
    /\ AbilityUnchanged
    /\ UNCHANGED <<location, protected, hasOpponent, damage>>
    /\ UNCHANGED cardVars
    /\ UNCHANGED sideVars

\* a creature in play is dealt 1 damage
damageCreature(c) ==
    /\ AllIdle
    /\ creatureZone[c] = "play area"
    /\ damage[c] < MaxDamage
    /\ damage' = [damage EXCEPT ![c] = @ + 1]
    /\ AbilityUnchanged
    /\ UNCHANGED <<location, protected, hasOpponent, creatureZone>>
    /\ UNCHANGED cardVars
    /\ UNCHANGED sideVars

\* an effect in play keeps a creature from being healed
restrictHeal(c) ==
    /\ AllIdle
    /\ c \notin healRestricted
    /\ healRestricted' = healRestricted \cup {c}
    /\ UNCHANGED abilityVars
    /\ UNCHANGED cardVars
    /\ UNCHANGED <<linkVars, conflictVars, blankVars, covertVars>>

(***************************************************************************)
(* Creeping Oblivion (l. 4-25): this.play({targets: {select, cards}}).     *)
(***************************************************************************)
\* targets.select.choices (l. 10-13)
Choices == {"Mine", "Opponent's"}

\* the condition under which a choice is offered (l. 11-12)
choiceCondition(choice) ==
    IF choice = "Mine"
    THEN Cardinality(Discard("me")) > 0
    ELSE hasOpponent /\ Cardinality(Discard("opponent")) > 0

\* targets.cards.player that always takes the acting player
cardsPlayer_alwaysMine(choice) == "me"

\* targets.cards.player (l. 19)
cardsPlayer(choice) == IF choice = "Mine" THEN "me" ELSE "opponent"

\* a 'cards' group that lets one more card be selected
numCards_oneMore == 2 + 1

\* targets.cards.numCards (l. 18)
numCards == 2

\* targets.cards.mode (l. 17)
declaredMode == "upTo"

\* the modes a multi-card target group can be declared with
GroupModes(a) ==
    IF a = "creeping-oblivion" THEN {declaredMode, "exactly"} ELSE {"single"}

\* purge's legality check: the card can be affected and is not purged yet
purgeCanAffect(c) == c \notin protected /\ location[c] # "purged"

\* targets.cards: location 'discard' of the player, gameAction purge
\* (l. 19-21)
cardsCandidates(choice) ==
    {c \in Discard(cardsPlayer(choice)) : purgeCanAffect(c)}

(***************************************************************************)
(* Target selection: the ordered selections a group's mode allows.         *)
(***************************************************************************)
DistinctSeqs(S, k) ==
    {sel \in [1..k -> S] : \A i, j \in 1..k : i # j => sel[i] # sel[j]}

\* up-to-N selection that demands at least one card
Selections_nonEmpty(mode, n, candidates) ==
    IF mode = "upTo"
    THEN UNION {DistinctSeqs(candidates, k) : k \in 1..n}
    ELSE DistinctSeqs(candidates, n)

Selections(mode, n, candidates) ==
    IF mode = "upTo"
    THEN UNION {DistinctSeqs(candidates, k) : k \in 0..n}
    ELSE DistinctSeqs(candidates, n)

\* an exact-N group that cannot be filled
CannotFill(mode, n, candidates) ==
    mode = "exactly" /\ Cardinality(candidates) < n

(***************************************************************************)
(* Ability resolution: Idle -> TargetsPending -> ActionsPending ->         *)
(* Resolved, or Illegal.                                                   *)
(***************************************************************************)
SetState(a, st) == abilityState' = [abilityState EXCEPT ![a] = st]

\* an activation attempt; the board is remembered as it was
activate(a, mode) ==
    /\ abilityState[a] = "Idle"
    /\ NoneResolving
    /\ SetState(a, "TargetsPending")
    /\ cardsMode' = IF a = "creeping-oblivion" THEN mode ELSE cardsMode
    /\ board' = Board
    /\ UNCHANGED <<location, protected, hasOpponent, creatureZone, damage,
                   selects, targets, applied, events>>
    /\ UNCHANGED cardVars
    /\ UNCHANGED sideVars

\* the player declines the ability while its targets are pending
decline(a) ==
    /\ abilityState[a] = "TargetsPending"
    /\ SetState(a, "Illegal")
    /\ UNCHANGED <<location, protected, hasOpponent, creatureZone, damage,
                   cardsMode, selects, targets, applied, events, board>>
    /\ UNCHANGED cardVars
    /\ UNCHANGED sideVars

\* the choices of the 'select' group that are offered
offeredChoices == {choice \in Choices : choiceCondition(choice)}

\* the 'select' group: the player takes one of the offered choices
resolveSelect(choice) ==
    /\ abilityState["creeping-oblivion"] = "TargetsPending"
    /\ selects = "none"
    /\ choice \in offeredChoices
    /\ selects' = choice
    /\ UNCHANGED <<location, protected, hasOpponent, creatureZone, damage,
                   abilityState, cardsMode, targets, applied, events, board>>
    /\ UNCHANGED cardVars
    /\ UNCHANGED sideVars

\* no choice is offered: the ability cannot be used
failSelect ==
    /\ abilityState["creeping-oblivion"] = "TargetsPending"
    /\ selects = "none"
    /\ offeredChoices = {}
    /\ SetState("creeping-oblivion", "Illegal")
    /\ UNCHANGED <<location, protected, hasOpponent, creatureZone, damage,
                   cardsMode, selects, targets, applied, events, board>>
    /\ UNCHANGED cardVars
    /\ UNCHANGED sideVars

\* the 'cards' group (dependsOn: 'select'): the player selects cards
resolveCards(sel) ==
    /\ abilityState["creeping-oblivion"] = "TargetsPending"
    /\ selects # "none"
    /\ sel \in Selections(cardsMode, numCards, cardsCandidates(selects))
    /\ targets' = [targets EXCEPT !["creeping-oblivion"] = sel]
    /\ SetState("creeping-oblivion", "ActionsPending")
    /\ UNCHANGED <<location, protected, hasOpponent, creatureZone, damage,
                   cardsMode, selects, applied, events, board>>
    /\ UNCHANGED cardVars
    /\ UNCHANGED sideVars

\* the 'cards' group asks for more cards than can be selected
failCards ==
    /\ abilityState["creeping-oblivion"] = "TargetsPending"
    /\ selects # "none"
    /\ CannotFill(cardsMode, numCards, cardsCandidates(selects))
    /\ SetState("creeping-oblivion", "Illegal")
    /\ UNCHANGED <<location, protected, hasOpponent, creatureZone, damage,
                   cardsMode, selects, targets, applied, events, board>>
    /\ UNCHANGED cardVars
    /\ UNCHANGED sideVars

ActionEvent(name, source, card, param) ==
    [name |-> name, source |-> source, card |-> card, param |-> param]

\* ability.actions.purge(): the card leaves its zone for good
purge(source, c) ==
    /\ location' = [location EXCEPT ![c] = "purged"]
    /\ events' = Append(events, ActionEvent("onCardPurged", source, c, ""))

\* the next selected card an action is applied to
nextTarget(a) == targets[a][applied[a] + 1]

\* one apply step of Creeping Oblivion: purge the next selected card
applyPurge ==
    /\ abilityState["creeping-oblivion"] = "ActionsPending"
    /\ applied["creeping-oblivion"] < Len(targets["creeping-oblivion"])
    /\ purge("creeping-oblivion", nextTarget("creeping-oblivion"))
    /\ applied' = [applied EXCEPT !["creeping-oblivion"] = @ + 1]
    /\ UNCHANGED <<protected, hasOpponent, creatureZone, damage, abilityState,
                   cardsMode, selects, targets, board>>
    /\ UNCHANGED cardVars
    /\ UNCHANGED sideVars

(***************************************************************************)
(* Bear Flute (src/unnamed/part_001, l. 4-17): this.action({target,        *)
(* gameAction}).                                                           *)
(***************************************************************************)
\* the legality check of heal
healCanAffect(c) == c \in creaturesInPlay /\ c \notin healRestricted

\* target: cardType 'creature', cardCondition card.name === 'Ancient Bear'
\* (l. 6-8); creatures are targeted in play, and the candidates are the
\* cards that target.gameAction (l. 9) can affect
targetCandidates ==
    {c \in creaturesInPlay :
        CreatureName(c) = "Ancient Bear" /\ healCanAffect(c)}

\* the target group: one Ancient Bear if there is any, else no target
resolveTarget(sel) ==
    /\ abilityState["bear-flute"] = "TargetsPending"
    /\ sel \in (IF targetCandidates = {} THEN {<<>>}
                ELSE DistinctSeqs(targetCandidates, 1))
    /\ targets' = [targets EXCEPT !["bear-flute"] = sel]
    /\ SetState("bear-flute", "ActionsPending")
    /\ UNCHANGED <<location, protected, hasOpponent, creatureZone, damage,
                   cardsMode, selects, applied, events, board>>
    /\ UNCHANGED cardVars
    /\ UNCHANGED sideVars

\* the search declared before the heal
bearFluteActions_searchFirst == <<"search", "heal">>

\* the game actions of the ability in the order they are declared:
\* target.gameAction (l. 9), gameAction (l. 13)
bearFluteActions == <<"heal", "search">>

\* ability.actions.heal({ fully: true })
heal(source, c) ==
    /\ damage' = [damage EXCEPT ![c] = 0]
    /\ events' = Append(events, ActionEvent("onHeal", source, c, "fully"))

\* a search that is always given the card name
searchCardName_always == "Ancient Bear"

\* the properties the search action is given (l. 14); "" is no card name
searchCardName ==
    IF ~(\E c \in creaturesInPlay : CreatureName(c) = "Ancient Bear")
    THEN "Ancient Bear" ELSE ""

\* ability.actions.search(): the named cards in deck and discard go to hand
search(source, cardName) ==
    /\ creatureZone' =
           [c \in Creatures |->
               IF /\ cardName # ""
                  /\ CreatureName(c) = cardName
                  /\ creatureZone[c] \in {"deck", "discard"}
               THEN "hand" ELSE creatureZone[c]]
    /\ events' = Append(events, ActionEvent("onSearch", source, 0, cardName))

\* one apply step of Bear Flute
applyBearFlute ==
    /\ abilityState["bear-flute"] = "ActionsPending"
    /\ applied["bear-flute"] < Len(bearFluteActions)
    /\ IF bearFluteActions[applied["bear-flute"] + 1] = "heal"
       THEN /\ IF targets["bear-flute"] # <<>>
               THEN heal("bear-flute", targets["bear-flute"][1])
               ELSE UNCHANGED <<damage, events>>
            /\ UNCHANGED creatureZone
       ELSE /\ search("bear-flute", searchCardName)
            /\ UNCHANGED damage
    /\ applied' = [applied EXCEPT !["bear-flute"] = @ + 1]
    /\ UNCHANGED <<location, protected, hasOpponent, abilityState, cardsMode,
                   selects, targets, board>>
    /\ UNCHANGED cardVars
    /\ UNCHANGED sideVars

\* the apply steps an ability instance has to run
ActionCount(a) ==
    IF a = "creeping-oblivion" THEN Len(targets[a]) ELSE Len(bearFluteActions)

\* every action has been applied: the ability is resolved
resolve(a) ==
    /\ abilityState[a] = "ActionsPending"
    /\ applied[a] = ActionCount(a)
    /\ SetState(a, "Resolved")
    /\ UNCHANGED <<location, protected, hasOpponent, creatureZone, damage,
                   cardsMode, selects, targets, applied, events, board>>
    /\ UNCHANGED cardVars
    /\ UNCHANGED sideVars

(***************************************************************************)
(* Specification.                                                          *)
(***************************************************************************)
ModifySkill == \E amount \in SkillAmounts, type \in SkillTypes, applying \in Applying :
                   modifySkill(amount, type, applying)

ModifyFate == \E amount \in FateAmounts : modifyFate(amount)

LeavesPlay == leavesPlay

SetBow == \E b \in BOOLEAN : setBow(b)

JoinConflict == joinConflict

ReturnHomeFromConflict == \E side \in Sides : returnHomeFromConflict(side)

DeclareAs ==
    \E side \in Sides, conflictType \in ConflictTypes :
        declareAs(side, conflictType)

MoveTo == \E targetLocation \in Locations : moveTo(targetLocation)

SetStealth == setStealth

SetConflictOption == \E option \in ConflictOptionNames : setConflictOption(option)

RestrictAction == \E actionType \in GameActions : restrictAction(actionType)

UseCovertToBypass ==
    \E c \in Characters, targetCard \in Characters :
        useCovertToBypass(c, targetCard)

AddKeyword == \E c \in Characters : addKeyword(c)

RemoveKeyword == \E c \in Characters : removeKeyword(c)

ClearBlank == clearBlank

SetBlank == setBlank

SetAllowedAttachmentTraits ==
    \E traits \in SUBSET TraitNames : setAllowedAttachmentTraits(traits)

Attach == \E c \in Pool : attach(c)

AttachToCard == \E c \in Pool, target \in Pool : attachToCard(c, target)

Detach == \E c \in Pool : detach(c)

OpponentJoins == opponentJoins

DiscardCard == \E p \in Players, c \in DiscardCards : discardCard(p, c)

DiscardOwn == \E c \in DiscardCards : discardCard("me", c)

Protect == \E c \in DiscardCards : protect(c)

PlayCreature == \E c \in Creatures : playCreature(c)

DiscardCreature == \E c \in Creatures : discardCreature(c)

DamageCreature == \E c \in Creatures : damageCreature(c)

RestrictHeal == \E c \in Creatures : restrictHeal(c)

ActivateOblivion ==
    \E mode \in GroupModes("creeping-oblivion") :
        activate("creeping-oblivion", mode)

ActivateBearFlute ==
    \E mode \in GroupModes("bear-flute") : activate("bear-flute", mode)

Decline == \E a \in Abilities : decline(a)

ResolveSelect == \E choice \in Choices : resolveSelect(choice)

FailSelect == failSelect

ResolveCards ==
    \E sel \in UNION {[1..k -> DiscardCards] : k \in 0..numCards} :
        resolveCards(sel)

FailCards == failCards

ApplyPurge == applyPurge

ResolveTarget ==
    \E sel \in UNION {[1..k -> Creatures] : k \in 0..1} : resolveTarget(sel)

ApplyBearFlute == applyBearFlute

Resolve == \E a \in Abilities : resolve(a)

Next ==
    \/ ModifySkill
    \/ ModifyFate
    \/ Honor
    \/ Dishonor
    \/ LeavesPlay
    \/ Attach
    \/ Detach
    \/ SetBow
    \/ JoinConflict
    \/ ReturnHomeFromConflict

    \/ AttachToCard
    \/ RestrictHeal
    \/ UseCovertToBypass
    \/ AddKeyword
    \/ RemoveKeyword
    \/ ClearBlank
    \/ SetBlank
    \/ SetAllowedAttachmentTraits
    \/ DeclareAs
    \/ MoveTo
    \/ SetStealth
    \/ SetConflictOption
    \/ RestrictAction
    \/ OpponentJoins
    \/ DiscardCard
    \/ Protect
    \/ PlayCreature
    \/ DiscardCreature
    \/ DamageCreature
    \/ ActivateOblivion
    \/ ActivateBearFlute
    \/ Decline
    \/ ResolveSelect
    \/ FailSelect
    \/ ResolveCards
    \/ FailCards
    \/ ApplyPurge
    \/ ResolveTarget
    \/ ApplyBearFlute
    \/ Resolve

\* Every operation on one card, one board and both abilities.  Its state
\* space is the product of the parts below; the properties are checked on
\* the parts, whose operations do not write each other's variables.
Spec == Init /\ [][Next]_vars

\* The operations that decide a card's skill values.  modifyFate and
\* leavesPlay are left out: of what getMilitarySkill and getPoliticalSkill
\* read they change only isHonored / isDishonored, which they clear.
NextSkill ==
    \/ ModifySkill
    \/ Attach
    \/ Detach
    \/ Honor
    \/ Dishonor

SpecSkill == Init /\ [][NextSkill]_vars

\* attaching cards to the host and to each other
NextAttach ==
    \/ Attach
    \/ AttachToCard
    \/ Detach

SpecAttach == Init /\ [][NextAttach]_vars

\* the operations on a card's honor status, fate, bowing, conflict
\* participation and leaving play
NextLifecycle ==
    \/ Honor
    \/ Dishonor
    \/ LeavesPlay
    \/ ModifyFate
    \/ SetBow
    \/ JoinConflict
    \/ ReturnHomeFromConflict

SpecLifecycle == Init /\ [][NextLifecycle]_vars

\* Creeping Oblivion played on every board of discard piles
NextOblivion ==
    \/ OpponentJoins
    \/ DiscardCard
    \/ Protect
    \/ ActivateOblivion
    \/ Decline
    \/ ResolveSelect
    \/ FailSelect
    \/ ResolveCards
    \/ FailCards
    \/ ApplyPurge
    \/ Resolve

\* The abilities do not read the DrawCard object, and declaring a card in
\* a conflict does not read its printed data: one card stands for all.
InitAbility ==
    /\ Init
    /\ phase = "conflict"
    /\ cardData.type = "character"
    /\ cardData.keywords = {}

SpecOblivion == InitAbility /\ [][NextOblivion]_vars

\* blanking a card with attachments and restoring its text
NextBlank ==
    \/ Attach
    \/ Detach
    \/ SetBlank
    \/ SetAllowedAttachmentTraits
    \/ ClearBlank

SpecBlank == InitAbility /\ [][NextBlank]_vars

\* bypassing defenders with the covert keyword
NextCovert ==
    \/ AddKeyword
    \/ RemoveKeyword
    \/ UseCovertToBypass

SpecCovert == InitAbility /\ [][NextCovert]_vars

\* declaring the card in conflicts, and what the declaration depends on
NextConflict ==
    \/ DeclareAs
    \/ ReturnHomeFromConflict
    \/ SetBow
    \/ MoveTo
    \/ SetStealth
    \/ SetConflictOption
    \/ RestrictAction

SpecConflict == InitAbility /\ [][NextConflict]_vars

\* Both abilities used in one game, one after the other in either order,
\* on the acting player's own cards.  Once an ability's targets are
\* resolved its apply steps run without waiting for anything, which is
\* the fairness condition.
ApplyPhase ==
    \/ ApplyPurge
    \/ ApplyBearFlute
    \/ Resolve

NextAbility ==
    \/ DiscardOwn
    \/ PlayCreature
    \/ DamageCreature
    \/ ActivateOblivion
    \/ ActivateBearFlute
    \/ Decline
    \/ ResolveSelect
    \/ FailSelect
    \/ ResolveCards
    \/ FailCards
    \/ ResolveTarget
    \/ ApplyPhase

SpecAbility == InitAbility /\ [][NextAbility]_vars /\ WF_vars(ApplyPhase)

\* Bear Flute used on every board of creatures, healable or not
NextBearFlute ==
    \/ PlayCreature
    \/ DiscardCreature
    \/ DamageCreature
    \/ RestrictHeal
    \/ ActivateBearFlute
    \/ Decline
    \/ ResolveTarget
    \/ ApplyBearFlute
    \/ Resolve

SpecBearFlute == InitAbility /\ [][NextBearFlute]_vars

(***************************************************************************)
(* Properties.                                                             *)
(***************************************************************************)
Max0(n) == IF n >= 0 THEN n ELSE 0

Computed == phase # "setup"

PrintedOf(type) ==
    IF type = "military" THEN cardData.military ELSE cardData.political

ModifierOf(type) ==
    IF type = "military" THEN militarySkillModifier ELSE politicalSkillModifier

\* the number printed on an attachment as its bonus of the given type
BonusValue(c, type) ==
    LET printed == IF type = "military" THEN PoolData(c).military_bonus
                   ELSE PoolData(c).political_bonus
    IN CASE printed = <<"+", "0">> -> 0
         [] printed = <<"+", "1">> -> 1
         [] printed = <<"+", "2">> -> 2
         [] printed = <<"-", "1">> -> -1

RECURSIVE BonusSum(_, _)
BonusSum(cards, type) ==
    IF cards = <<>> THEN 0
    ELSE BonusValue(Head(cards), type) + BonusSum(Tail(cards), type)

GloryDelta ==
    (IF isHonored THEN cardData.glory.v ELSE 0)
    - (IF isDishonored THEN cardData.glory.v ELSE 0)

\* printed + modifier + attachment bonuses + glory delta, before clamping
RawTotal(type, cards) ==
    PrintedOf(type).v + ModifierOf(type) + BonusSum(cards, type) + GloryDelta

\* C1: outside setup and with printed = false, a card with a printed
\* military / political value always reports a number >= 0 for it,
\* whatever the modifier, the attachment bonuses and the glory delta are.
C1_SkillNeverNegative ==
    Computed =>
        /\ IsNumber(cardData.military) =>
               IsNumber(getMilitarySkill(FALSE)) /\ getMilitarySkill(FALSE).v >= 0
        /\ IsNumber(cardData.political) =>
               IsNumber(getPoliticalSkill(FALSE)) /\ getPoliticalSkill(FALSE).v >= 0

\* a state where the unclamped military total is negative and 0 is reported
C1_Witness ==
    /\ Computed
    /\ IsNumber(cardData.military)
    /\ RawTotal("military", attachments) < 0
    /\ militarySkillModifier < 0
    /\ isDishonored
    /\ getMilitarySkill(FALSE) = Num(0)

\* C2: after any sequence of honor(), dishonor() and leavesPlay() calls,
\* isHonored and isDishonored are never both true.
C2_HonorExclusive == ~(isHonored /\ isDishonored)

\* dishonor() has just been called on an honored card
C2_Witness ==
    lastCall = "dishonor" /\ pre.isHonored /\ ~isHonored /\ ~isDishonored

\* C3 as stated: honor() followed by dishonor() leaves the card dishonored
\* and not honored.
C3_AsStated ==
    (lastCall = "dishonor" /\ pre.lastCall = "honor") =>
        (isDishonored /\ ~isHonored)

\* C3 amended: honor() followed by dishonor() leaves the card not honored,
\* and dishonored exactly when it was dishonored before the honor() call.
C3_HonorThenDishonor ==
    (lastCall = "dishonor" /\ pre.lastCall = "honor") =>
        (~isHonored /\ (isDishonored <=> pre2.isDishonored))

\* honor() then dishonor() on a card that had no status: it ends with none
C3_Witness ==
    /\ lastCall = "dishonor"
    /\ pre.lastCall = "honor"
    /\ pre.isHonored
    /\ ~isHonored
    /\ ~isDishonored

\* C4 as stated: from every honor status, a second honor() right after a
\* honor() leaves the status as the first one left it.
C4_AsStated ==
    (lastCall = "honor" /\ pre.lastCall = "honor") =>
        (isHonored = pre.isHonored /\ isDishonored = pre.isDishonored)

\* C4 amended: a second honor() changes nothing when the card was not
\* dishonored before the first one (it is honored after both); when it was
\* dishonored, the first honor() leaves no status and the second honors it.
C4_HonorTwice ==
    (lastCall = "honor" /\ pre.lastCall = "honor") =>
        /\ isHonored /\ ~isDishonored
        /\ IF pre2.isDishonored
           THEN ~pre.isHonored /\ ~pre.isDishonored
           ELSE pre.isHonored /\ ~pre.isDishonored

\* two honor() calls in a row on a card that was not dishonored
C4_Witness ==
    /\ lastCall = "honor"
    /\ pre.lastCall = "honor"
    /\ pre.isHonored
    /\ isHonored
    /\ ~isDishonored

\* C5: honor() turns dishonored into no status, leaves honored unchanged
\* and turns no status into honored; dishonor() is the mirror image.
\* Neither touches anything else a caller can observe.
C5_HonorDishonorTable ==
    /\ lastCall = "honor" =>
           /\ pre.isDishonored => (~isHonored /\ ~isDishonored)
           /\ pre.isHonored => (isHonored /\ ~isDishonored)
           /\ (~pre.isHonored /\ ~pre.isDishonored) => (isHonored /\ ~isDishonored)
    /\ lastCall = "dishonor" =>
           /\ pre.isHonored => (~isHonored /\ ~isDishonored)
           /\ pre.isDishonored => (isDishonored /\ ~isHonored)
           /\ (~pre.isHonored /\ ~pre.isDishonored) => (isDishonored /\ ~isHonored)
    /\ lastCall \in {"honor", "dishonor"} =>
           /\ fate = pre.fate
           /\ honor = pre.honor
           /\ hand = pre.hand
           /\ playerFate = pre.playerFate
           /\ attachments = pre.attachments

\* honor() has just cleared the dishonor of a dishonored card
C5_Witness ==
    lastCall = "honor" /\ pre.isDishonored /\ ~isHonored /\ ~isDishonored

PreSkill(type) == IF type = "military" THEN pre.military ELSE pre.political

Pre2Skill(type) == IF type = "military" THEN pre2.military ELSE pre2.political

\* the last call attached the card that is now last in the list
Attached == lastCall = "attach"

AttachedCard == attachments[Len(attachments)]

\* the bonus of card c is printed as +N
PlusBonus(c, type) ==
    Head(IF type = "military" THEN PoolData(c).military_bonus
         ELSE PoolData(c).political_bonus) = "+"

\* the last call detached the card that the call before it attached
DetachedAfterAttach ==
    /\ lastCall = "detach"
    /\ pre.lastCall = "attach"
    /\ pre.attachments # <<>>
    /\ attachments = SubSeq(pre.attachments, 1, Len(pre.attachments) - 1)

\* C6 as stated: attaching a +N card raises the host's effective skill by
\* exactly N in every state, and detaching it restores the pre-attach value.
C6_AsStated ==
    \A type \in SkillTypes :
        (Computed /\ IsNumber(PrintedOf(type))) =>
            /\ (Attached /\ PlusBonus(AttachedCard, type)) =>
                   getSkill(type, FALSE).v
                       = PreSkill(type).v + BonusValue(AttachedCard, type)
            /\ DetachedAfterAttach => getSkill(type, FALSE) = Pre2Skill(type)

\* C6 amended: attaching a card with bonus N makes the effective skill
\* max(0, T + N), T being the host's total before clamping (printed +
\* modifier + attachment bonuses + glory delta); so a +N card raises the
\* effective skill by exactly N whenever T >= 0.  Detaching the card right
\* after restores exactly the pre-attach value.
C6_AttachDetach ==
    \A type \in SkillTypes :
        (Computed /\ IsNumber(PrintedOf(type))) =>
            /\ Attached =>
                   /\ getSkill(type, FALSE)
                          = Num(Max0(RawTotal(type, pre.attachments)
                                     + BonusValue(AttachedCard, type)))
                   /\ (PlusBonus(AttachedCard, type)
                       /\ RawTotal(type, pre.attachments) >= 0) =>
                          getSkill(type, FALSE).v
                              = PreSkill(type).v + BonusValue(AttachedCard, type)
            /\ DetachedAfterAttach => getSkill(type, FALSE) = Pre2Skill(type)

\* a +2 military card was attached and detached again: the skill went up by
\* exactly 2 and is back at the value before
C6_Witness ==
    /\ Computed
    /\ IsNumber(cardData.military)
    /\ lastCall = "detach"
    /\ pre.lastCall = "attach"
    /\ pre.attachments = Append(attachments, 1)
    /\ pre.military = Num(getMilitarySkill(FALSE).v + 2)
    /\ pre2.military = getMilitarySkill(FALSE)

\* C7: outside setup and with printed = false, getSkill(type) of a card
\* with a printed stat is max(0, printed + modifier + sum of attachment
\* bonuses + glory if honored - glory if dishonored); printed military 3
\* with one +2 attachment and glory 2 gives 7 honored and 3 dishonored.
C7_SkillFormula ==
    Computed =>
        /\ \A type \in SkillTypes :
               IsNumber(PrintedOf(type)) =>
                   getSkill(type, FALSE) = Num(Max0(RawTotal(type, attachments)))
        /\ (/\ cardData.military = Num(3)
            /\ cardData.glory = Num(2)
            /\ militarySkillModifier = 0
            /\ attachments = <<1>>) =>
               /\ isHonored => getSkill("military", FALSE) = Num(7)
               /\ isDishonored => getSkill("military", FALSE) = Num(3)

\* the scenario: printed 3, one +2 attachment, glory 2, dishonored
C7_Witness ==
    /\ Computed
    /\ cardData.military = Num(3)
    /\ cardData.glory = Num(2)
    /\ militarySkillModifier = 0
    /\ attachments = <<1>>
    /\ isDishonored
    /\ getSkill("military", FALSE) = Num(3)

\* C8 as stated: in the setup phase or with printed = true, the printed
\* number is returned for every card that has one (0 included), and
\* undefined only for a card without that stat.
C8_AsStated ==
    \A printed \in BOOLEAN :
        (phase = "setup" \/ printed) =>
            /\ getMilitarySkill(printed)
                   = IF IsNumber(cardData.military) THEN cardData.military
                     ELSE Undefined
            /\ getPoliticalSkill(printed)
                   = IF IsNumber(cardData.political) THEN cardData.political
                     ELSE Undefined

\* C9 as stated: a card without a printed value for a stat never reports a
\* number for it, and a card whose printed value is 0 always reports a
\* number, never 'no value'.
C9_AsStated ==
    \A type \in SkillTypes, printed \in BOOLEAN :
        /\ ~IsNumber(PrintedOf(type)) =>
               getSkill(type, printed) \in {Null, Undefined}
        /\ PrintedOf(type) = Num(0) => IsNumber(getSkill(type, printed))

\* C10: leavesPlay() on an honored card changes the controller's honor by
\* exactly +1 and leaves the card not honored; on a dishonored card by
\* exactly -1 and leaves it not dishonored; with no status, by nothing.
C10_LeavesPlayHonor ==
    lastCall = "leavesPlay" =>
        /\ pre.isHonored => (honor = pre.honor + 1 /\ ~isHonored)
        /\ pre.isDishonored => (honor = pre.honor - 1 /\ ~isDishonored)
        /\ (~pre.isHonored /\ ~pre.isDishonored) => honor = pre.honor

\* a dishonored card has just left play and cost its controller 1 honor
C10_Witness ==
    /\ lastCall = "leavesPlay"
    /\ pre.isDishonored
    /\ honor = pre.honor - 1
    /\ ~isDishonored

\* C11 as stated: a second leavesPlay() on a card that a previous
\* leavesPlay() already cleared grants nothing: the controller's honor,
\* hand size and fate are what they were before the second call, whatever
\* keywords the card has.
C11_AsStated ==
    (lastCall = "leavesPlay" /\ pre.lastCall = "leavesPlay") =>
        /\ honor = pre.honor
        /\ hand = pre.hand
        /\ playerFate = pre.playerFate

\* C12: immediately after leavesPlay() the card is not bowed, not in a
\* conflict, holds no fate and is neither honored nor dishonored, whatever
\* it was before the call.
C12_LeavesPlayClears ==
    lastCall = "leavesPlay" =>
        /\ bowed = FALSE
        /\ inConflict = FALSE
        /\ fate = 0
        /\ isHonored = FALSE
        /\ isDishonored = FALSE

\* a bowed, honored card holding fate has left play out of a conflict
C12_Witness ==
    /\ lastCall = "leavesPlay"
    /\ pre.bowed
    /\ pre.inConflict
    /\ pre.fate > 0
    /\ pre.isHonored
    /\ ~bowed /\ ~inConflict /\ fate = 0 /\ ~isHonored

\* the honor a leavesPlay() pays for the status the card had when called
HonorPayout(o) ==
    IF o.isHonored THEN 1 ELSE IF o.isDishonored THEN -1 ELSE 0

\* C13: one leavesPlay() call adjusts the controller's honor at most once,
\* by the amount the status at call time decides, draws exactly one card
\* if and only if the card has sincerity, and gives the controller exactly
\* one fate if and only if the card has courtesy.
C13_PayoutsOnce ==
    lastCall = "leavesPlay" =>
        /\ honor - pre.honor = HonorPayout(pre)
        /\ honor - pre.honor \in {-1, 0, 1}
        /\ hand - pre.hand = (IF hasSincerity THEN 1 ELSE 0)
        /\ playerFate - pre.playerFate = (IF hasCourtesy THEN 1 ELSE 0)
        /\ Len(messages) = (IF HonorPayout(pre) # 0 THEN 1 ELSE 0)
                           + (IF hasSincerity THEN 1 ELSE 0)
                           + (IF hasCourtesy THEN 1 ELSE 0)

\* an honored card with sincerity and courtesy has left play: one honor,
\* one card and one fate
C13_Witness ==
    /\ lastCall = "leavesPlay"
    /\ pre.isHonored
    /\ hasSincerity /\ hasCourtesy
    /\ honor = pre.honor + 1
    /\ hand = pre.hand + 1
    /\ playerFate = pre.playerFate + 1

\* C14: the fate on a card is never negative, and a modifyFate whose
\* amount would take it below 0 leaves it at exactly 0 (and any other
\* modifyFate at the sum).
C14_FateNeverNegative ==
    /\ fate >= 0
    /\ lastCall = "modifyFate" => fate = Max0(pre.fate + lastAmount)

\* a modifyFate asked for more fate than the card held
C14_Witness ==
    /\ lastCall = "modifyFate"
    /\ pre.fate > 0
    /\ pre.fate + lastAmount < 0
    /\ fate = 0

\* C15: a modifyFate call raises exactly one onCardFateChanged event, and
\* the event carries the fate after the call minus the fate before it: on
\* a card with 1 fate, modifyFate(-3) raises the event with fate = -1.
C15_FateEventDelta ==
    lastCall = "modifyFate" =>
        /\ Len(raised) = 1
        /\ raised[1].name = "onCardFateChanged"
        /\ raised[1].amount = fate - pre.fate
        /\ (pre.fate = 1 /\ lastAmount = -3) => raised[1].amount = -1

\* modifyFate(-3) on a card with 1 fate
C15_Witness ==
    /\ lastCall = "modifyFate"
    /\ pre.fate = 1
    /\ lastAmount = -3
    /\ fate = 0
    /\ raised = <<Event("onCardFateChanged", -1, TRUE)>>

\* the fate deltas carried by the events in a list, summed
RECURSIVE FateDeltas(_)
FateDeltas(evs) ==
    IF evs = <<>> THEN 0
    ELSE (IF Head(evs).name = "onCardFateChanged"
          THEN Head(evs).amount ELSE 0) + FateDeltas(Tail(evs))

\* C16 as stated: every call that changes the card's fate, honor status,
\* bowed flag or conflict participation raises an event, and the fate
\* deltas of the events a call raises add up to the change of fate it
\* made (so that fate is always the sum of the deltas raised so far).
C16_AsStated ==
    /\ fate - pre.fate = FateDeltas(raised)
    /\ (\/ isHonored # pre.isHonored
        \/ isDishonored # pre.isDishonored
        \/ bowed # pre.bowed
        \/ inConflict # pre.inConflict) => raised # <<>>

\* the discard pile a choice of Creeping Oblivion's 'select' group names,
\* as it was when the ability was activated
PileAtActivation(choice) ==
    {c \in DiscardCards :
        board.location[c] = IF choice = "Mine" THEN "my discard"
                            ELSE "opponent's discard"}

SelectedCards(a) == {targets[a][i] : i \in 1..Len(targets[a])}

PurgedSoFar(a) == {targets[a][i] : i \in 1..applied[a]}

\* C17: Creeping Oblivion's 'cards' group is resolved only after its
\* 'select' group; the cards selected all come from the discard pile of
\* the player the choice fixes, the acting player's for 'Mine' and the
\* opponent's otherwise; and a choice is only taken when its pile is not
\* empty and, for the opponent's pile, an opponent exists.
C17_DependentTargets ==
    /\ abilityState["creeping-oblivion"] \in {"ActionsPending", "Resolved"}
           => selects \in Choices
    /\ selects = "none" => targets["creeping-oblivion"] = <<>>
    /\ selects \in Choices =>
           SelectedCards("creeping-oblivion") \subseteq PileAtActivation(selects)
    /\ selects = "Mine" => PileAtActivation("Mine") # {}
    /\ selects = "Opponent's" =>
           board.hasOpponent /\ PileAtActivation("Opponent's") # {}

\* two cards were selected from the opponent's discard pile while the
\* acting player's own pile held cards too
C17_Witness ==
    /\ abilityState["creeping-oblivion"] = "Resolved"
    /\ selects = "Opponent's"
    /\ Len(targets["creeping-oblivion"]) = 2
    /\ PileAtActivation("Mine") # {}

\* C18: when Creeping Oblivion resolves with 'Mine' chosen, at most 2
\* cards are selected; each apply step removes the next selected card from
\* the discard pile and raises one purge event for it, so the events are
\* the selected cards in selection order, once each; no other card moves.
C18_PurgeSelection ==
    (selects = "Mine"
     /\ abilityState["creeping-oblivion"] \in {"ActionsPending", "Resolved"}) =>
        LET T == targets["creeping-oblivion"]
            n == applied["creeping-oblivion"]
        IN /\ Len(T) <= 2
           /\ n <= Len(T)
           /\ abilityState["creeping-oblivion"] = "Resolved" => n = Len(T)
           /\ events = [i \in 1..n |->
                           ActionEvent("onCardPurged", "creeping-oblivion",
                                       T[i], "")]
           /\ \A c \in DiscardCards :
                  IF c \in PurgedSoFar("creeping-oblivion")
                  THEN board.location[c] = "my discard"
                       /\ location[c] = "purged"
                  ELSE location[c] = board.location[c]

\* two of three cards in the acting player's discard pile were purged, the
\* higher-numbered one first
C18_Witness ==
    /\ abilityState["creeping-oblivion"] = "Resolved"
    /\ selects = "Mine"
    /\ Cardinality(PileAtActivation("Mine")) = 3
    /\ Len(targets["creeping-oblivion"]) = 2
    /\ targets["creeping-oblivion"][1] > targets["creeping-oblivion"][2]
    /\ Len(events) = 2
    /\ Cardinality(Discard("me")) = 1

\* the legal candidates of the 'cards' group on the board at activation
CandidatesAtActivation(choice) ==
    {c \in PileAtActivation(choice) : c \notin board.protected}

\* C19: an ability instance that is Illegal has applied none of its
\* actions and the board is as it was when the ability was activated;
\* an up-to-N group with no legal candidate can be resolved with the empty
\* selection, cannot fail, and the ability then goes on with nothing
\* selected.
C19_IllegalNoMutation ==
    /\ \A a \in Abilities :
           abilityState[a] = "Illegal" =>
               /\ applied[a] = 0
               /\ events = <<>>
               /\ Board = board
    /\ (abilityState["creeping-oblivion"] = "TargetsPending"
        /\ selects \in Choices /\ cardsMode = "upTo"
        /\ cardsCandidates(selects) = {}) =>
            /\ <<>> \in Selections(cardsMode, numCards, cardsCandidates(selects))
            /\ ~CannotFill(cardsMode, numCards, cardsCandidates(selects))
    /\ (abilityState["creeping-oblivion"] \in {"ActionsPending", "Resolved"}
        /\ cardsMode = "upTo"
        /\ CandidatesAtActivation(selects) = {}) =>
            targets["creeping-oblivion"] = <<>>

\* a group of exactly 2 cards met a pile with 1 legal candidate: Illegal
C19_Witness ==
    /\ abilityState["creeping-oblivion"] = "Illegal"
    /\ cardsMode = "exactly"
    /\ selects = "Mine"
    /\ Cardinality(CandidatesAtActivation("Mine")) = 1
    /\ Board = board
    /\ events = <<>>

\* the moves of one ability instance the state machine has
AbilityEdges ==
    { <<"Idle", "TargetsPending">>, <<"TargetsPending", "ActionsPending">>,
      <<"ActionsPending", "Resolved">>,
      <<"Idle", "Illegal">>, <<"TargetsPending", "Illegal">> }

\* the events raised so far by the actions of one ability
EventsOf(a) ==
    LET FromAbility(e) == e.source = a
    IN  SelectSeq(events, FromAbility)

EventNames(evs) == [i \in 1..Len(evs) |-> evs[i].name]

\* the events an ability raises when all its actions are applied in the
\* order they are declared
DeclaredEventNames(a) ==
    IF a = "creeping-oblivion"
    THEN [i \in 1..Len(targets[a]) |-> "onCardPurged"]
    ELSE (IF targets[a] # <<>> THEN <<"onHeal">> ELSE <<>>) \o <<"onSearch">>

\* C20: an ability instance moves only Idle -> TargetsPending ->
\* ActionsPending -> Resolved, or to Illegal from Idle or TargetsPending,
\* and never leaves Resolved or Illegal; while an instance is in
\* ActionsPending every step is one of its own apply steps or its move to
\* Resolved, no other instance moves and no other ability's event is
\* raised; it always reaches Resolved, and has then raised the events of
\* all its actions in the order they are declared.
C20_AbilityLifecycle ==
    /\ [][\A a \in Abilities :
             \/ abilityState'[a] = abilityState[a]
             \/ <<abilityState[a], abilityState'[a]>> \in AbilityEdges]_vars
    /\ [][\A a \in Abilities :
             abilityState[a] = "ActionsPending" =>
                 /\ \/ /\ abilityState'[a] = "ActionsPending"
                       /\ applied'[a] = applied[a] + 1
                       /\ applied'[a] <= ActionCount(a)
                    \/ /\ abilityState'[a] = "Resolved"
                       /\ applied'[a] = applied[a]
                 /\ \A b \in Abilities \ {a} :
                        /\ abilityState'[b] = abilityState[b]
                        /\ applied'[b] = applied[b]
                 /\ \A i \in (Len(events) + 1)..Len(events') :
                        events'[i].source = a]_vars
    /\ [](\A a \in Abilities :
             abilityState[a] = "Resolved" =>
                 EventNames(EventsOf(a)) = DeclaredEventNames(a))
    /\ \A a \in Abilities :
           (abilityState[a] = "ActionsPending") ~> (abilityState[a] = "Resolved")

\* Bear Flute healed an Ancient Bear and searched, after Creeping Oblivion
\* purged two cards: both instances are Resolved
C20_Witness ==
    /\ abilityState["creeping-oblivion"] = "Resolved"
    /\ abilityState["bear-flute"] = "Resolved"
    /\ EventNames(events)
           = <<"onCardPurged", "onCardPurged", "onHeal", "onSearch">>

\* the card types that can host attachments
CanHost(type) == type = "character"

InList(cards, c) == \E i \in 1..Len(cards) : cards[i] = c

\* C21 as stated: canAttach returns false when the target is the
\* attachment itself or is of a type that cannot host attachments, so no
\* card is its own parent or a member of its own attachments list.
C21_AsStated ==
    /\ \A c \in Pool : ~canAttach(c, CardRef(c))
    /\ \A c \in Pool : ~CanHost(cardData.type) => ~canAttach(c, "host")
    /\ \A c, target \in Pool :
           ~CanHost(PoolData(target).type) => ~canAttach(c, CardRef(target))
    /\ \A c \in Pool :
           /\ parent[c] # CardRef(c)
           /\ ~InList(poolAttachments[c], c)

\* C22: canDeclareAsAttacker / canDeclareAsDefender return true only if
\* the card is in the play area, is not under stealth, is not bowed or has
\* canBeDeclaredWhileBowing set, is not barred from the conflict type, and
\* the game actions (participating, declaring on that side) are allowed;
\* so a card that was just declared is bowed only with that option.
C22_DeclareOnlyReady ==
    /\ \A side \in Sides, conflictType \in ConflictTypes :
           Truthy(canDeclareAs(side, conflictType)) =>
               /\ cardLocation = "play area"
               /\ stealth # True
               /\ ~bowed \/ conflictOptions.canBeDeclaredWhileBowing = True
               /\ conflictOptions.cannotParticipateIn[conflictType] = False
               /\ "participateInConflict" \notin restrictions
               /\ side = "attacker" => "declareAsAttacker" \notin restrictions
               /\ side = "defender" => "declareAsDefender" \notin restrictions
    /\ lastCall \in {"declareAsAttacker", "declareAsDefender"} =>
           (bowed => conflictOptions.canBeDeclaredWhileBowing = True)

\* a bowed card with canBeDeclaredWhileBowing was declared as attacker,
\* while it may not defend and may not take part in political conflicts
C22_Witness ==
    /\ lastCall = "declareAsAttacker"
    /\ bowed
    /\ inConflict
    /\ conflictOptions.canBeDeclaredWhileBowing = True
    /\ conflictOptions.cannotParticipateIn["political"] = True
    /\ "declareAsDefender" \in restrictions

\* C23 as stated: after clearBlank() returns, every card still in the
\* host's attachments list satisfies allowAttachment(), also when two
\* disallowed attachments follow each other in the list.
C23_AsStated ==
    lastCall = "clearBlank" =>
        \A i \in 1..Len(attachments) : allowAttachment(attachments[i])

\* C24: useCovertToBypass(target) returns true, sets target.covert and
\* records covertTarget = target, after which needsCovertTarget() is false,
\* exactly when the acting card has covert and the target does not; in every
\* other case it returns false and leaves covert and covertTarget of every
\* card, and the rest of the card's state, as they were.  A card never
\* bypasses itself or a covert card.
C24_CovertBypass ==
    lastCall = "useCovertToBypass" =>
        LET c == lastArgs[1]
            targetCard == lastArgs[2]
        IN  /\ Observed = [pre EXCEPT !.lastCall = "useCovertToBypass"]
            /\ IF isCovert(c) /\ ~isCovert(targetCard)
               THEN /\ returned = True
                    /\ covert = [preCovert.covert EXCEPT ![targetCard] = True]
                    /\ covertTarget =
                           [preCovert.covertTarget EXCEPT
                               ![c] = CardRef(targetCard)]
                    /\ ~needsCovertTarget(c)
               ELSE /\ returned = False
                    /\ covert = preCovert.covert
                    /\ covertTarget = preCovert.covertTarget
            /\ (c = targetCard \/ isCovert(targetCard)) => returned = False

\* a covert card has bypassed a card without covert
C24_Witness ==
    /\ lastCall = "useCovertToBypass"
    /\ returned = True
    /\ isCovert(lastArgs[1])
    /\ ~isCovert(lastArgs[2])
    /\ covert[lastArgs[2]] = True
    /\ covertTarget[lastArgs[1]] = CardRef(lastArgs[2])

\* what a resolved Bear Flute has done
BearInPlay == \E c \in creaturesInPlay : CreatureName(c) = "Ancient Bear"

HealableBearInPlay ==
    \E c \in creaturesInPlay :
        CreatureName(c) = "Ancient Bear" /\ healCanAffect(c)

FluteHealed ==
    \E i \in 1..Len(events) :
        events[i].source = "bear-flute" /\ events[i].name = "onHeal"

FluteSearched(cardName) ==
    /\ \E i \in 1..Len(events) :
           events[i].source = "bear-flute" /\ events[i].name = "onSearch"
    /\ \A i \in 1..Len(events) :
           (events[i].source = "bear-flute" /\ events[i].name = "onSearch")
               => events[i].param = cardName

FluteResolved == abilityState["bear-flute"] = "Resolved"

\* C25 as stated: whenever Bear Flute resolves without a heal target its
\* search is given the card name 'Ancient Bear'; whenever an Ancient Bear
\* is in play the search is given no card name and a heal target is chosen;
\* Bear Flute never resolves doing neither a heal nor a named search.
C25_AsStated ==
    FluteResolved =>
        /\ targets["bear-flute"] = <<>> => FluteSearched("Ancient Bear")
        /\ BearInPlay =>
               (FluteSearched("") /\ targets["bear-flute"] # <<>>)
        /\ FluteHealed \/ FluteSearched("Ancient Bear")

\* C25: when no Ancient Bear is in play, Bear Flute resolves without a heal
\* target and its search is given the card name 'Ancient Bear'; when one is
\* in play the search is given no card name, and a heal target is chosen
\* and healed exactly when some Ancient Bear in play can be affected by
\* heal.  Bear Flute does neither a heal nor a named search exactly when
\* there are Ancient Bears in play and heal can affect none of them.
C25_HealOrSearch ==
    FluteResolved =>
        /\ ~BearInPlay =>
               (targets["bear-flute"] = <<>> /\ ~FluteHealed
                /\ FluteSearched("Ancient Bear"))
        /\ BearInPlay =>
               /\ FluteSearched("")
               /\ targets["bear-flute"] # <<>> <=> HealableBearInPlay
               /\ FluteHealed <=> HealableBearInPlay
        /\ targets["bear-flute"] # <<>> =>
               /\ CreatureName(targets["bear-flute"][1]) = "Ancient Bear"
               /\ damage[targets["bear-flute"][1]] = 0
        /\ ~(FluteHealed \/ FluteSearched("Ancient Bear"))
               <=> (BearInPlay /\ ~HealableBearInPlay)

\* Bear Flute has resolved with an Ancient Bear in play that heal cannot
\* affect: no heal, and a search without a card name
C25_Witness ==
    /\ FluteResolved
    /\ BearInPlay
    /\ ~HealableBearInPlay
    /\ targets["bear-flute"] = <<>>
    /\ ~FluteHealed
    /\ FluteSearched("")

====
